---- MODULE Spec2Model ----
(***************************************************************************)
(* Model of one turn of StreamingProcessor (streaming_processor.py) and of *)
(* the tool-call renderer (tool_adapter.py): the stream of Agent SDK       *)
(* messages is folded into message_parts / tool_calls /                    *)
(* tool_call_positions and pushed to YChat with add_message (create) and   *)
(* update_message (replace).  The pre/post tool hooks are callbacks the    *)
(* SDK runs between two messages of the stream.                            *)
(*                                                                         *)
(* A Python str is a sequence of tokens: [ch |-> c] is a character,        *)
(* [open |-> attrs] the tag <jai-tool-call attrs>, [close |-> TRUE] the    *)
(* tag </jai-tool-call>.  An attribute value is a sequence of fragments.   *)
(*                                                                         *)
(* HistorySpec applies the two history methods of ClaudePersona            *)
(* (claude_persona.py) to bounded inputs.  SessionSpec is the connection   *)
(* of ClaudeAgentPersona (claude.py) under concurrent process_message      *)
(* calls.  PersonaSpec is a turn of ClaudePersona._process_with_claude_code *)
(* (claude_persona.py): the generator claude_code_stream and its consumer. *)
(* TurnsSpec is Spec with a new StreamingProcessor constructed for the     *)
(* next prompt of the same chat, as ClaudeAgentPersona.process_message     *)
(* does.                                                                   *)
(***************************************************************************)
EXTENDS Naturals, Sequences, FiniteSets, TLC

\* ------------------------------------------------------------------ bounds
MaxEvents == 4      \* content blocks, empty messages and hook callbacks handled in a turn
MaxBlocks == 2      \* content blocks in one AssistantMessage / UserMessage
MaxAppends == 6     \* calls of _update_conversation_state in HistorySpec
MaxPrompts == 3     \* process_message calls of one ClaudeAgentPersona in SessionSpec
MaxTurns == 2       \* turns of one ClaudePersona in PersonaSpec
MaxMessages == 2    \* messages the Claude Code stream yields in one turn
MaxTurnEvents == 3  \* content blocks and hook callbacks handled by all processors of TurnsSpec
MaxProcessors == 2  \* StreamingProcessor objects constructed for one chat in TurnsSpec

\* --------------------------------------------------------- program constants
HistoryCap == 5     \* _update_conversation_state keeps the last 5 entries
WindowSize == 3     \* _get_recent_conversation_context reads the last 3 entries
PreviewLen == 200     \* entry['response'][:200]
ProgressEvery == 20   \* message_count % 20

\* ------------------------------------------------------------ input values
Ids == {"t1", "t2"}
ToolKinds == {[name |-> "Read", input |-> <<"path", "a.py">>],
              [name |-> "Bash", input |-> <<>>]}
Contents == {"r1", "r2"}
Errors == {"network reset"}
None == 0          \* message_id before the first push
NoError == ""      \* no exception raised

Tasks == 1..MaxPrompts
ChatPaths == {"a.chat", "b.chat"}
NoContext == [none |-> TRUE]    \* _get_recent_conversation_context returned None

Ch(c) == [ch |-> c]
\* the final texts of a turn: a short one and one of more than 200 characters
ShortResponse == <<Ch("a")>>
LongResponse == [i \in 1..(PreviewLen + 1) |-> Ch("x")]
Responses == {ShortResponse, LongResponse}
RawMessages == {<<"msg">>}
\* what query() of the Claude Code SDK yields, as str(msg)
CodeMessages == {"SystemMessage", "hi", "ok"}
\* what the stream can raise: an Exception with a text, or the CancelledError of a cancelled caller
Raisable == [cancelled : {FALSE}, text : Errors] \cup {[cancelled |-> TRUE, text |-> ""]}

Texts == {<<Ch("a")>>, <<Ch(" "), Ch("b")>>}

TextBlock(t) == [type |-> "text", text |-> t]
ToolUseBlock(id, k) == [type |-> "tool_use", id |-> id, name |-> k.name, input |-> k.input]
ToolResultBlock(id, c) == [type |-> "tool_result", tool_use_id |-> id, content |-> c]

AssistantBlocks == {TextBlock(t) : t \in Texts}
                   \cup {ToolUseBlock(i, k) : i \in Ids, k \in ToolKinds}
UserBlocks == {ToolResultBlock(i, c) : i \in Ids, c \in Contents}
HookInputs == {[tool_name |-> k.name, tool_input |-> k.input, tool_response |-> c] :
                  k \in ToolKinds, c \in {"r2"}}

\* an MCP server descriptor, and the mcp_config argument: None (given is FALSE) or a dict
\* of server name -> descriptor, possibly empty
Descriptor(command) == [command |-> command, args |-> <<>>]
McpDicts == {[x \in {} |-> Descriptor("")],
             [x \in {"fs"} |-> Descriptor("uvx")],
             [x \in {"fs", "git"} |-> Descriptor("uvx")]}
McpConfigs == {[given |-> FALSE, servers |-> [x \in {} |-> Descriptor("")]]}
              \cup {[given |-> TRUE, servers |-> d] : d \in McpDicts}

SeqsUpTo(S, n) == UNION {[1..k -> S] : k \in 0..n}

\* ------------------------------------------------------- string functions
\* a join that drops a part equal to the part before it
RECURSIVE JoinMerging(_)
JoinMerging(parts) ==
    IF parts = <<>> THEN <<>>
    ELSE IF Len(parts) >= 2 /\ parts[1] = parts[2] THEN JoinMerging(Tail(parts))
    ELSE Head(parts) \o JoinMerging(Tail(parts))

\* "".join(parts)
RECURSIVE Join(_)
Join(parts) == IF parts = <<>> THEN <<>> ELSE Head(parts) \o Join(Tail(parts))

IsSpace(tok) == "ch" \in DOMAIN tok /\ tok.ch \in {" ", "\n"}

RECURSIVE LStrip(_)
LStrip(s) == IF s # <<>> /\ IsSpace(Head(s)) THEN LStrip(Tail(s)) ELSE s

RECURSIVE RStrip(_)
RStrip(s) == IF s # <<>> /\ IsSpace(s[Len(s)]) THEN RStrip(SubSeq(s, 1, Len(s) - 1)) ELSE s

\* str.strip()
Strip(s) == RStrip(LStrip(s))

\* str(int) for the values the bounds allow
IntStr(n) == CASE n = 0 -> "0" [] n = 1 -> "1" [] n = 2 -> "2" [] n = 3 -> "3"
               [] OTHER -> "n"

\* json.dumps of a tool input (a sequence of key/value fragments)
JsonDumps(input) == <<"{">> \o input \o <<"}">>

\* str(block.content) / str(tool_response): the payloads are strings
PyStr(c) == c

\* json.dumps(output_obj): keys in insertion order
OutputJson(id, name, content) ==
    <<"{", "tool_call_id", id, "role", "tool", "name", name, "content", PyStr(content), "}">>

\* ---------------------------------------------------------- tool_adapter.py
HasOutput(rec) == "output" \in DOMAIN rec

\* props | xmlattr : key="value" pairs in dict order
XmlAttr(props) ==
    << [k |-> "tool_id", v |-> <<props.tool_id>>],
       [k |-> "index", v |-> <<IntStr(props.index)>>],
       [k |-> "type", v |-> <<props.type>>],
       [k |-> "function_name", v |-> <<props.function_name>>],
       [k |-> "function_args", v |-> props.function_args] >>
    \o (IF HasOutput(props) THEN << [k |-> "output", v |-> props.output] >> ELSE <<>>)

\* JAI_TOOL_CALL_TEMPLATE.render: one "\n<jai-tool-call ..>\n</jai-tool-call>\n" per props
RECURSIVE render_tool_calls(_)
render_tool_calls(props_list) ==
    IF props_list = <<>> THEN <<>>
    ELSE << Ch("\n"), [open |-> XmlAttr(Head(props_list))], Ch("\n"), [close |-> TRUE], Ch("\n") >>
         \o render_tool_calls(Tail(props_list))

\* ------------------------------------------------------------------- state
VARIABLES
    pc,                   \* "idle", "streaming", "done": position in process_with_agent_sdk
    isWriting,            \* awareness field "isWriting"
    message_id,           \* self.message_id (None or the handle add_message returned)
    message_parts,        \* self.message_parts
    tool_calls,           \* self.tool_calls: id -> props
    tool_call_positions,  \* self.tool_call_positions: id -> index in message_parts
    message_count,        \* local message_count of process_with_agent_sdk
    handled,              \* history: content blocks, empty messages and callbacks handled
    ychat,                \* the chat document: handle -> body
    sink_log,             \* calls received by YChat, in order
    warnings,             \* number of logger.warning calls
    error,                \* str(e) of the exception the stream raised, or NoError
    outcome,              \* "none", "returned", "raised" or "cancelled": how process_with_agent_sdk ended
    observed,             \* history: elements of the stream in order of first sight
    preFirst,             \* history: ids whose pre-tool hook ran before any tool-use block
    delivered,            \* history: id -> results attached from tool-result blocks
    dropped,              \* history: ids of the results that arrived for an id without a record
    processors,           \* history: StreamingProcessor objects constructed so far
    turn_base,            \* history: messages the chat held when the processor was constructed
    last,                 \* history: the event handled by the last step
    conversation_state,   \* ClaudePersona._conversation_state: chat path -> entries
    clock,                \* asyncio.get_event_loop().time()
    recent_context,       \* the value _get_recent_conversation_context returned last
    appended,             \* history: chat path -> every entry ever appended, in order
    sdk_client,           \* ClaudeAgentPersona._sdk_client: None or a client
    clients,              \* the ClaudeSDKClient objects constructed: "new", "connected", "failed"
    task_pc,              \* position of each process_message call
    task_client,          \* local sdk_client of each process_message call
    submitted,            \* the prompts sent, in order, each with the client it was sent on
    shut,                 \* history: shutdown() was called
    turn_pc,              \* ClaudePersona: "idle" or "streaming" (claude_code_stream is being consumed)
    turn_path,            \* get_chat_path() of the turn
    cc_messages,          \* claude_code_stream: messages
    cc_full_response,     \* claude_code_stream: full_response
    cc_message_count,     \* claude_code_stream: message_count
    stream_body,          \* the body stream_message has pushed to the chat for this turn
    turns                 \* history: turns begun

\* the variables of a ClaudePersona turn
turnVars == <<turn_pc, turn_path, cc_messages, cc_full_response, cc_message_count,
              stream_body, turns>>

\* the variables of ClaudeAgentPersona
sessionVars == <<sdk_client, clients, task_pc, task_client, submitted>>

\* the variables of ClaudePersona
personaVars == <<conversation_state, clock, recent_context, appended>>

vars == <<pc, isWriting, message_id, message_parts, tool_calls, tool_call_positions,
          message_count, handled, ychat, sink_log, warnings, error, outcome,
          observed, preFirst, delivered, dropped, processors, turn_base, last, personaVars, sessionVars, shut, turnVars>>

\* the variables of StreamingProcessor and of the chat
processorVars == <<pc, isWriting, message_id, message_parts, tool_calls, tool_call_positions,
                   message_count, handled, ychat, sink_log, warnings, error, outcome,
                   observed, preFirst, delivered, dropped, processors, turn_base>>

\* the fields of the processor and of the sink, as one record
Cur == [message_id |-> message_id, message_parts |-> message_parts,
        tool_calls |-> tool_calls, tool_call_positions |-> tool_call_positions,
        ychat |-> ychat, sink_log |-> sink_log, warnings |-> warnings]

Commit(p) ==
    /\ message_id' = p.message_id
    /\ message_parts' = p.message_parts
    /\ tool_calls' = p.tool_calls
    /\ tool_call_positions' = p.tool_call_positions
    /\ ychat' = p.ychat
    /\ sink_log' = p.sink_log
    /\ warnings' = p.warnings

\* dict[key] = value
DictSet(d, key, value) == [x \in (DOMAIN d) \cup {key} |-> IF x = key THEN value ELSE d[x]]

EmptyDict == [x \in {} |-> None]

\* ychat.add_message(NewMessage(body)): appends a message, returns its handle
AddMessage(p, body) ==
    [p EXCEPT !.ychat = Append(p.ychat, body),
              !.sink_log = Append(p.sink_log, [op |-> "create", id |-> Len(p.ychat) + 1])]

\* ychat.update_message(Message(id, body)): replaces the body of message id
UpdateChatMessage(p, id, body) ==
    [p EXCEPT !.ychat[id] = body,
              !.sink_log = Append(p.sink_log, [op |-> "replace", id |-> id])]

\* a push that empties message_parts once their join is sent
UpdateMessageFlush(p) ==
    LET message_body == Strip(Join(p.message_parts))
        q == [p EXCEPT !.message_parts = <<>>]
    IN IF p.message_id = None
       THEN [AddMessage(q, message_body) EXCEPT !.message_id = Len(p.ychat) + 1]
       ELSE UpdateChatMessage(q, p.message_id, message_body)

\* StreamingProcessor._update_message
UpdateMessage(p) ==
    LET message_body == Strip(Join(p.message_parts)) IN
    IF p.message_id = None
    THEN [AddMessage(p, message_body) EXCEPT !.message_id = Len(p.ychat) + 1]
    ELSE UpdateChatMessage(p, p.message_id, message_body)

\* the dict literal of a new tool call
NewToolCall(id, index, name, input) ==
    [tool_id |-> id, index |-> index, type |-> "function",
     function_name |-> name, function_args |-> JsonDumps(input)]

\* tool_calls[id]['output'] = output
SetOutput(rec, output) ==
    [tool_id |-> rec.tool_id, index |-> rec.index, type |-> rec.type,
     function_name |-> rec.function_name, function_args |-> rec.function_args,
     output |-> output]

\* the loop body with the block appended but no record stored
AssistantBlockNoRecord(p, block) ==
    IF block.type = "text"
    THEN [p EXCEPT !.message_parts = Append(p.message_parts, block.text)]
    ELSE IF block.id \notin DOMAIN p.tool_calls
    THEN LET rec == NewToolCall(block.id, Cardinality(DOMAIN p.tool_calls), block.name, block.input)
             tool_call_ui == render_tool_calls(<<rec>>)
             position == Len(p.message_parts)
         IN [p EXCEPT !.message_parts = Append(p.message_parts, tool_call_ui),
                      !.tool_call_positions = DictSet(p.tool_call_positions, block.id, position)]
    ELSE p

\* the loop body without the `not in self.tool_calls` test
AssistantBlockNoGuard(p, block) ==
    IF block.type = "text"
    THEN [p EXCEPT !.message_parts = Append(p.message_parts, block.text)]
    ELSE LET rec == NewToolCall(block.id, Cardinality(DOMAIN p.tool_calls), block.name, block.input)
             tool_call_ui == render_tool_calls(<<rec>>)
             position == Len(p.message_parts)
         IN [p EXCEPT !.tool_calls = DictSet(p.tool_calls, block.id, rec),
                      !.message_parts = Append(p.message_parts, tool_call_ui),
                      !.tool_call_positions = DictSet(p.tool_call_positions, block.id, position)]

\* one iteration of the loop of _handle_assistant_message
AssistantBlock(p, block) ==
    IF block.type = "text"
    THEN [p EXCEPT !.message_parts = Append(p.message_parts, block.text)]
    ELSE IF block.id \notin DOMAIN p.tool_calls
    THEN LET rec == NewToolCall(block.id, Cardinality(DOMAIN p.tool_calls), block.name, block.input)
             tool_call_ui == render_tool_calls(<<rec>>)
             position == Len(p.message_parts)
         IN [p EXCEPT !.tool_calls = DictSet(p.tool_calls, block.id, rec),
                      !.message_parts = Append(p.message_parts, tool_call_ui),
                      !.tool_call_positions = DictSet(p.tool_call_positions, block.id, position)]
    ELSE p

RECURSIVE AssistantLoop(_, _)
AssistantLoop(p, blocks) ==
    IF blocks = <<>> THEN p ELSE AssistantLoop(AssistantBlock(p, Head(blocks)), Tail(blocks))

\* StreamingProcessor._handle_assistant_message
HandleAssistantMessage(p, blocks) == UpdateMessage(AssistantLoop(p, blocks))

\* the re-rendered block moved to the end of the parts
ReRenderMove(parts, position, ui) ==
    SubSeq(parts, 1, position) \o SubSeq(parts, position + 2, Len(parts)) \o <<ui>>

\* the re-rendered block appended instead of stored at its position
ReRenderAppend(parts, position, ui) == Append(parts, ui)

\* message_parts[position] = updated_tool_ui (positions are 0-based)
ReRender(parts, position, ui) == [parts EXCEPT ![position + 1] = ui]

\* the loop body keeping the result of an unknown id in a record made for it
UserBlockBuffering(p, block) ==
    IF block.tool_use_id \in DOMAIN p.tool_calls
    THEN LET old == p.tool_calls[block.tool_use_id]
             rec == SetOutput(old, OutputJson(block.tool_use_id, old.function_name, block.content))
             q == [p EXCEPT !.tool_calls = DictSet(p.tool_calls, block.tool_use_id, rec)]
             r == IF block.tool_use_id \in DOMAIN q.tool_call_positions
                  THEN [q EXCEPT !.message_parts =
                           [q.message_parts EXCEPT ![q.tool_call_positions[block.tool_use_id] + 1] =
                               render_tool_calls(<<rec>>)]]
                  ELSE q
         IN UpdateMessage(r)
    ELSE LET stub == NewToolCall(block.tool_use_id, Cardinality(DOMAIN p.tool_calls),
                                 "unknown", <<>>)
             rec == SetOutput(stub, OutputJson(block.tool_use_id, "unknown", block.content))
         IN [p EXCEPT !.tool_calls = DictSet(p.tool_calls, block.tool_use_id, rec),
                      !.warnings = p.warnings + 1]

\* the loop body with _update_message called for unknown ids too
UserBlockAlwaysPush(p, block) ==
    IF block.tool_use_id \in DOMAIN p.tool_calls
    THEN LET old == p.tool_calls[block.tool_use_id]
             rec == SetOutput(old, OutputJson(block.tool_use_id, old.function_name, block.content))
             q == [p EXCEPT !.tool_calls = DictSet(p.tool_calls, block.tool_use_id, rec)]
             r == IF block.tool_use_id \in DOMAIN q.tool_call_positions
                  THEN [q EXCEPT !.message_parts =
                           [q.message_parts EXCEPT ![q.tool_call_positions[block.tool_use_id] + 1] =
                               render_tool_calls(<<rec>>)]]
                  ELSE q
         IN UpdateMessage(r)
    ELSE UpdateMessage([p EXCEPT !.warnings = p.warnings + 1])

\* one iteration of the loop of _handle_user_message
UserBlock(p, block) ==
    IF block.tool_use_id \in DOMAIN p.tool_calls
    THEN LET old == p.tool_calls[block.tool_use_id]
             rec == SetOutput(old, OutputJson(block.tool_use_id, old.function_name, block.content))
             q == [p EXCEPT !.tool_calls = DictSet(p.tool_calls, block.tool_use_id, rec)]
             r == IF block.tool_use_id \in DOMAIN q.tool_call_positions
                  THEN [q EXCEPT !.message_parts =
                           ReRender(q.message_parts, q.tool_call_positions[block.tool_use_id],
                                    render_tool_calls(<<rec>>))]
                  ELSE q
         IN UpdateMessage(r)
    ELSE [p EXCEPT !.warnings = p.warnings + 1]

\* StreamingProcessor._handle_user_message
RECURSIVE HandleUserMessage(_, _)
HandleUserMessage(p, blocks) ==
    IF blocks = <<>> THEN p ELSE HandleUserMessage(UserBlock(p, Head(blocks)), Tail(blocks))

\* pre_tool_hook
PreToolHookBody(p, input_data, tool_use_id) ==
    LET rec == NewToolCall(tool_use_id, Cardinality(DOMAIN p.tool_calls),
                           input_data.tool_name, input_data.tool_input)
    IN UpdateMessage([p EXCEPT !.tool_calls = DictSet(p.tool_calls, tool_use_id, rec)])

\* post_tool_hook
PostToolHookBody(p, input_data, tool_use_id) ==
    IF tool_use_id \in DOMAIN p.tool_calls
    THEN LET rec == SetOutput(p.tool_calls[tool_use_id],
                              OutputJson(tool_use_id, input_data.tool_name, input_data.tool_response))
         IN UpdateMessage([p EXCEPT !.tool_calls = DictSet(p.tool_calls, tool_use_id, rec)])
    ELSE p

\* the demo server of process_with_agent_sdk
DemoServers ==
    [x \in {"demo"} |-> [command |-> "npx",
                         args |-> <<"-y", "@modelcontextprotocol/server-everything">>]]

\* the choice with `is not None` as its test
McpServersUnlessNone(mcp_config) ==
    IF mcp_config.given THEN mcp_config.servers ELSE DemoServers

\* `if mcp_config: mcp_servers = mcp_config else: mcp_servers = {"demo": ...}`
McpServers(mcp_config) ==
    IF mcp_config.given /\ DOMAIN mcp_config.servers # {}
    THEN mcp_config.servers
    ELSE DemoServers

\* body of the message sent by the except clause of process_with_agent_sdk
ErrorBody(e) == <<Ch("An error occurred: "), Ch(e)>>

\* the except clause re-raising
ExceptReraise(e) == "raised"

\* `except Exception` of process_with_agent_sdk: the exception is swallowed
ExceptOutcome(e) == "returned"

\* --------------------------------------------------------- history helpers
\* ids of the tool-use blocks seen so far
SeenUse == {observed[i].tool : i \in {j \in 1..Len(observed) : "tool" \in DOMAIN observed[j]}}

RECURSIVE Observe(_, _)
Observe(obs, blocks) ==
    IF blocks = <<>> THEN obs
    ELSE LET b == Head(blocks)
             seen == {obs[i].tool : i \in {j \in 1..Len(obs) : "tool" \in DOMAIN obs[j]}}
         IN Observe(IF b.type = "text" THEN Append(obs, [text |-> b.text])
                    ELSE IF b.id \in seen THEN obs
                    ELSE Append(obs, [tool |-> b.id]),
                    Tail(blocks))

RECURSIVE Deliver(_, _, _)
Deliver(dl, known, blocks) ==
    IF blocks = <<>> THEN dl
    ELSE LET b == Head(blocks) IN
         Deliver(IF b.tool_use_id \in known
                 THEN [dl EXCEPT ![b.tool_use_id] = @ \cup {b.content}] ELSE dl,
                 known, Tail(blocks))

\* the tool-result block is for an id that has a record
Known(b) == b.tool_use_id \in DOMAIN tool_calls

\* what handling a message costs of the bound: one per content block
Cost(blocks) == IF blocks = <<>> THEN 1 ELSE Len(blocks)

Budget(cost) == handled + cost <= MaxEvents

\* ------------------------------------------------- claude_persona.py: history
\* list[-n:]
LastN(list, n) == IF Len(list) > n THEN SubSeq(list, Len(list) - n + 1, Len(list)) ELSE list

\* list[:n]
FirstN(list, n) == IF Len(list) > n THEN SubSeq(list, 1, n) ELSE list

\* sep.join(parts)
RECURSIVE JoinWith(_, _)
JoinWith(sep, parts) ==
    IF parts = <<>> THEN <<>>
    ELSE IF Len(parts) = 1 THEN parts[1]
    ELSE parts[1] \o <<sep>> \o JoinWith(sep, Tail(parts))

\* the dict literal conversation_entry
ConversationEntry(messages, full_response, timestamp) ==
    [messages |-> messages, response |-> full_response, timestamp |-> timestamp]

\* the trimming with the oldest entries kept
KeepFirst(entries) ==
    IF Len(entries) > HistoryCap THEN FirstN(entries, HistoryCap) ELSE entries

\* the trimming left out
KeepAll(entries) == entries

\* `if len(...) > 5: ... = ...[-5:]`
KeepLast(entries) ==
    IF Len(entries) > HistoryCap THEN LastN(entries, HistoryCap) ELSE entries

\* the entry stored in one list shared by every chat that has state
UpdateConversationStateShared(cs, chat_path, messages, full_response, timestamp) ==
    LET conversation_entry == ConversationEntry(messages, full_response, timestamp)
    IN [c \in (DOMAIN cs) \cup {chat_path} |->
           KeepLast(Append(IF c \in DOMAIN cs THEN cs[c] ELSE <<>>, conversation_entry))]

\* ClaudePersona._update_conversation_state
UpdateConversationState(cs, chat_path, messages, full_response, timestamp) ==
    LET cs1 == IF chat_path \notin DOMAIN cs THEN DictSet(cs, chat_path, <<>>) ELSE cs
        conversation_entry == ConversationEntry(messages, full_response, timestamp)
        cs2 == DictSet(cs1, chat_path, Append(cs1[chat_path], conversation_entry))
    IN DictSet(cs2, chat_path, KeepLast(cs2[chat_path]))

\* context_parts of _get_recent_conversation_context (every entry is a dict with a response)
ContextParts(recent_messages) ==
    [i \in 1..Len(recent_messages) |->
        <<Ch("Previous exchange "), Ch(IntStr(i)), Ch(": ")>>
        \o FirstN(recent_messages[i].response, PreviewLen) \o <<Ch("...")>>]

\* the read of the whole buffer instead of its last 3 entries
GetRecentContextWholeBuffer(cs, chat_path) ==
    IF chat_path \notin DOMAIN cs \/ cs[chat_path] = <<>> THEN NoContext
    ELSE [str |-> JoinWith(Ch("\n"), ContextParts(cs[chat_path]))]

\* ClaudePersona._get_recent_conversation_context
GetRecentConversationContext(cs, chat_path) ==
    IF chat_path \notin DOMAIN cs \/ cs[chat_path] = <<>> THEN NoContext
    ELSE LET recent_messages == LastN(cs[chat_path], WindowSize)
         IN [str |-> JoinWith(Ch("\n"), ContextParts(recent_messages))]

\* ------------------------------------------------------------------ actions
Init ==
    /\ pc = "idle"
    /\ isWriting = FALSE
    /\ message_id = None
    /\ message_parts = <<>>
    /\ tool_calls = EmptyDict
    /\ tool_call_positions = EmptyDict
    /\ message_count = 0
    /\ ychat = <<>>
    /\ sink_log = <<>>
    /\ warnings = 0
    /\ error = NoError
    /\ outcome = "none"
    /\ handled = 0
    /\ observed = <<>>
    /\ preFirst = {}
    /\ delivered = [i \in Ids |-> {}]
    /\ dropped = {}
    /\ processors = 1
    /\ turn_base = 0
    /\ last = [kind |-> "none"]
    /\ conversation_state = EmptyDict
    /\ clock = 0
    /\ recent_context = NoContext
    /\ appended = [c \in ChatPaths |-> <<>>]
    /\ sdk_client = None
    /\ clients = <<>>
    /\ task_pc = [t \in Tasks |-> "idle"]
    /\ task_client = [t \in Tasks |-> None]
    /\ submitted = <<>>
    /\ shut = FALSE
    /\ turn_pc = "idle"
    /\ turn_path = "a.chat"
    /\ cc_messages = <<>>
    /\ cc_full_response = <<>>
    /\ cc_message_count = 0
    /\ stream_body = <<>>
    /\ turns = 0

\* process_with_agent_sdk up to the start of the stream
Start(mcp_config) ==
    /\ pc = "idle"
    /\ pc' = "streaming"
    /\ isWriting' = TRUE
    /\ last' = [kind |-> "start", mcp_config |-> mcp_config,
                mcp_servers |-> McpServers(mcp_config)]
    /\ UNCHANGED <<message_id, message_parts, tool_calls, tool_call_positions, message_count,
                   ychat, sink_log, warnings, error, outcome, handled, observed, preFirst,
                   delivered, dropped>>
    /\ UNCHANGED <<personaVars, sessionVars, turnVars, shut, processors, turn_base>>

\* the stream yields an AssistantMessage
AssistantMessage(blocks) ==
    /\ pc = "streaming" /\ Budget(Cost(blocks))
    /\ message_count' = message_count + 1
    /\ handled' = handled + Cost(blocks)
    /\ Commit(HandleAssistantMessage(Cur, blocks))
    /\ observed' = Observe(observed, blocks)
    /\ last' = [kind |-> "assistant", blocks |-> blocks]
    /\ UNCHANGED <<pc, isWriting, error, outcome, preFirst, delivered, dropped>>
    /\ UNCHANGED <<personaVars, sessionVars, turnVars, shut, processors, turn_base>>

\* the stream yields a UserMessage
UserMessage(blocks) ==
    /\ pc = "streaming" /\ Budget(Cost(blocks))
    /\ message_count' = message_count + 1
    /\ handled' = handled + Cost(blocks)
    /\ Commit(HandleUserMessage(Cur, blocks))
    /\ delivered' = Deliver(delivered, DOMAIN tool_calls, blocks)
    /\ dropped' = dropped \cup {blocks[i].tool_use_id : i \in {j \in 1..Len(blocks) : ~Known(blocks[j])}}
    /\ last' = [kind |-> "user", blocks |-> blocks]
    /\ UNCHANGED <<pc, isWriting, error, outcome, observed, preFirst>>
    /\ UNCHANGED <<personaVars, sessionVars, turnVars, shut, processors, turn_base>>

\* the stream yields a ResultMessage (_handle_result_message only logs)
ResultMessage ==
    /\ pc = "streaming" /\ Budget(1)
    /\ message_count' = message_count + 1
    /\ handled' = handled + 1
    /\ last' = [kind |-> "result"]
    /\ UNCHANGED <<pc, isWriting, message_id, message_parts, tool_calls, tool_call_positions,
                   ychat, sink_log, warnings, error, outcome, observed, preFirst,
                   delivered, dropped>>
    /\ UNCHANGED <<personaVars, sessionVars, turnVars, shut, processors, turn_base>>

\* the stream yields a SystemMessage (_handle_message only logs)
SystemMessage ==
    /\ pc = "streaming" /\ Budget(1)
    /\ message_count' = message_count + 1
    /\ handled' = handled + 1
    /\ last' = [kind |-> "system"]
    /\ UNCHANGED <<pc, isWriting, message_id, message_parts, tool_calls, tool_call_positions,
                   ychat, sink_log, warnings, error, outcome, observed, preFirst,
                   delivered, dropped>>
    /\ UNCHANGED <<personaVars, sessionVars, turnVars, shut, processors, turn_base>>

\* the SDK runs the PreToolUse hook
PreToolHook(input_data, tool_use_id) ==
    /\ pc = "streaming" /\ Budget(1)
    /\ handled' = handled + 1
    /\ Commit(PreToolHookBody(Cur, input_data, tool_use_id))
    /\ preFirst' = IF tool_use_id \in SeenUse THEN preFirst ELSE preFirst \cup {tool_use_id}
    /\ last' = [kind |-> "pre", id |-> tool_use_id, input_data |-> input_data]
    /\ UNCHANGED <<pc, isWriting, message_count, error, outcome, observed, delivered, dropped>>
    /\ UNCHANGED <<personaVars, sessionVars, turnVars, shut, processors, turn_base>>

\* the SDK runs the PostToolUse hook
PostToolHook(input_data, tool_use_id) ==
    /\ pc = "streaming" /\ Budget(1)
    /\ handled' = handled + 1
    /\ Commit(PostToolHookBody(Cur, input_data, tool_use_id))
    /\ dropped' = IF tool_use_id \in DOMAIN tool_calls THEN dropped ELSE dropped \cup {tool_use_id}
    /\ last' = [kind |-> "post", id |-> tool_use_id, input_data |-> input_data]
    /\ UNCHANGED <<pc, isWriting, message_count, error, outcome, observed, preFirst, delivered>>
    /\ UNCHANGED <<personaVars, sessionVars, turnVars, shut, processors, turn_base>>

\* isWriting is reset at the end of the try block and of the except clause, with no finally
WritingWithoutFinally(ending) == ending = "cancel"

\* the finally clause of process_with_agent_sdk: isWriting after the turn has ended
\* by "end" (stream exhausted), "fail" (exception), "cancel" (CancelledError)
WritingAfterFinally(ending) == FALSE

\* the stream is exhausted: the async for ends, then the finally clause
StreamExhausted ==
    /\ pc = "streaming"
    /\ pc' = "done"
    /\ isWriting' = WritingAfterFinally("end")
    /\ outcome' = "returned"
    /\ last' = [kind |-> "end"]
    /\ UNCHANGED <<message_id, message_parts, tool_calls, tool_call_positions, message_count,
                   ychat, sink_log, warnings, error, handled, observed, preFirst, delivered, dropped>>
    /\ UNCHANGED <<personaVars, sessionVars, turnVars, shut, processors, turn_base>>

\* the stream raises: the except clause, then the finally clause
StreamFailed(e) ==
    /\ pc = "streaming"
    /\ pc' = "done"
    /\ error' = e
    /\ Commit(AddMessage(Cur, ErrorBody(e)))
    /\ isWriting' = WritingAfterFinally("fail")
    /\ outcome' = ExceptOutcome(e)
    /\ last' = [kind |-> "fail"]
    /\ UNCHANGED <<message_count, handled, observed, preFirst, delivered, dropped>>
    /\ UNCHANGED <<personaVars, sessionVars, turnVars, shut, processors, turn_base>>

\* the task is cancelled while it awaits the stream: CancelledError is not an Exception,
\* so the except clause is passed over, the finally clause runs and the error propagates
StreamCancelled ==
    /\ pc = "streaming"
    /\ pc' = "done"
    /\ isWriting' = WritingAfterFinally("cancel")
    /\ outcome' = "cancelled"
    /\ last' = [kind |-> "cancel"]
    /\ UNCHANGED <<message_id, message_parts, tool_calls, tool_call_positions, message_count,
                   ychat, sink_log, warnings, error, handled, observed, preFirst, delivered, dropped>>
    /\ UNCHANGED <<personaVars, sessionVars, turnVars, shut, processors, turn_base>>

Next ==
    \/ \E mcp_config \in McpConfigs : Start(mcp_config)
    \/ \E blocks \in SeqsUpTo(AssistantBlocks, MaxBlocks) : AssistantMessage(blocks)
    \/ \E blocks \in SeqsUpTo(UserBlocks, MaxBlocks) : UserMessage(blocks)
    \/ ResultMessage
    \/ SystemMessage
    \/ \E d \in HookInputs, i \in Ids : PreToolHook(d, i)
    \/ \E d \in HookInputs, i \in Ids : PostToolHook(d, i)
    \/ StreamExhausted
    \/ \E e \in Errors : StreamFailed(e)
    \/ StreamCancelled

Spec == Init /\ [][Next]_vars

\* ------------------------------------------------- one processor per prompt
\* the fields of the processor of the turn before
KeptFields ==
    [message_id |-> message_id, message_parts |-> message_parts,
     tool_calls |-> tool_calls, tool_call_positions |-> tool_call_positions]

\* the state tracking fields StreamingProcessor.__init__ sets
FreshFields ==
    [message_id |-> None, message_parts |-> <<>>,
     tool_calls |-> EmptyDict, tool_call_positions |-> EmptyDict]

\* process_message constructs a StreamingProcessor for the next prompt: __init__ sets the
\* fields, the chat keeps its messages
NewProcessor ==
    /\ pc = "done"
    /\ processors < MaxProcessors
    /\ processors' = processors + 1
    /\ turn_base' = Len(ychat)
    /\ pc' = "idle"
    /\ message_id' = FreshFields.message_id
    /\ message_parts' = FreshFields.message_parts
    /\ tool_calls' = FreshFields.tool_calls
    /\ tool_call_positions' = FreshFields.tool_call_positions
    /\ message_count' = 0
    /\ error' = NoError
    /\ outcome' = "none"
    /\ observed' = <<>>
    /\ preFirst' = {}
    /\ delivered' = [i \in Ids |-> {}]
    /\ dropped' = {}
    /\ last' = [kind |-> "new"]
    /\ UNCHANGED <<isWriting, handled, ychat, sink_log, warnings>>
    /\ UNCHANGED <<personaVars, sessionVars, turnVars, shut>>

TurnsNext ==
    \/ \E mcp_config \in McpConfigs : Start(mcp_config)
    \/ /\ handled < MaxTurnEvents
       /\ \/ \E block \in AssistantBlocks : AssistantMessage(<<block>>)
          \/ \E block \in UserBlocks : UserMessage(<<block>>)
          \/ \E d \in HookInputs, i \in Ids : PreToolHook(d, i)
          \/ \E d \in HookInputs, i \in Ids : PostToolHook(d, i)
    \/ StreamExhausted
    \/ \E e \in Errors : StreamFailed(e)
    \/ StreamCancelled
    \/ NewProcessor

TurnsSpec == Init /\ [][TurnsNext]_vars

\* ----------------------------------------------------- the history methods
\* _update_conversation_state(messages, full_response) in the chat chat_path
AppendEntry(chat_path, messages, full_response) ==
    /\ clock < MaxAppends
    /\ conversation_state' =
          UpdateConversationState(conversation_state, chat_path, messages, full_response, clock)
    /\ clock' = clock + 1
    /\ appended' = [appended EXCEPT ![chat_path] =
                       Append(@, ConversationEntry(messages, full_response, clock))]
    /\ last' = [kind |-> "append", path |-> chat_path]
    /\ UNCHANGED <<recent_context, processorVars, sessionVars, turnVars, shut>>

\* _get_recent_conversation_context() in the chat chat_path
ReadWindow(chat_path) ==
    /\ recent_context' = GetRecentConversationContext(conversation_state, chat_path)
    /\ last' = [kind |-> "read", path |-> chat_path]
    /\ UNCHANGED <<conversation_state, clock, appended, processorVars, sessionVars, turnVars, shut>>

\* ClaudePersona.shutdown
PersonaShutdown ==
    /\ ~shut
    /\ shut' = TRUE
    /\ conversation_state' = EmptyDict
    /\ appended' = [c \in ChatPaths |-> <<>>]
    /\ last' = [kind |-> "shutdown"]
    /\ UNCHANGED <<clock, recent_context, processorVars, sessionVars, turnVars>>

HistoryNext ==
    \/ \E c \in ChatPaths, m \in RawMessages, r \in Responses : AppendEntry(c, m, r)
    \/ \E c \in ChatPaths : ReadWindow(c)
    \/ PersonaShutdown

HistorySpec == Init /\ [][HistoryNext]_vars

\* ----------------------------------------------- claude_persona.py: the turn
\* `any(pattern in msg_str for pattern in skip_patterns)`
ContainsSkipPattern(msg) == msg \in {"SystemMessage"}

\* _parse_claude_code_message of a str message: "" when it is skipped, else the message
ParseClaudeCodeMessage(msg) == IF ContainsSkipPattern(msg) THEN "" ELSE msg

\* the notice claude_code_stream yields for an exception e
ErrorMsg(e) == <<Ch("\n\n[Error occurred during Claude Code processing: "), Ch(e), Ch("]")>>

\* stream_message pushes a yielded chunk: it is appended to the body of the turn's message
StreamPush(body, chunk) == body \o chunk

\* a handler that catches whatever is raised
CatchesAll(exc) == TRUE

\* `except Exception`: a CancelledError is not an Exception
CatchesException(exc) == ~exc.cancelled

\* a finally block that stores the turn whether or not a message was received
FinallyStoreAlways(cs, chat_path, messages, full_response, timestamp) ==
    UpdateConversationState(cs, chat_path, messages, full_response, timestamp)

\* the finally block of claude_code_stream
FinallyStore(cs, chat_path, messages, full_response, timestamp) ==
    IF messages # <<>>
    THEN UpdateConversationState(cs, chat_path, messages, full_response, timestamp)
    ELSE cs

\* the generator is left: its finally block runs with the given full_response
Finish(full_response) ==
    LET cs == FinallyStore(conversation_state, turn_path, cc_messages, full_response, clock)
    IN /\ conversation_state' = cs
       /\ IF cs = conversation_state
          THEN UNCHANGED <<clock, appended>>
          ELSE /\ clock' = clock + 1
               /\ appended' = [appended EXCEPT ![turn_path] =
                                  Append(@, cs[turn_path][Len(cs[turn_path])])]
       /\ cc_full_response' = full_response
       /\ turn_pc' = "idle"

\* _process_with_claude_code up to the first message: the recent context is read when the
\* chat has history, the generator starts
BeginTurn(chat_path) ==
    /\ turn_pc = "idle"
    /\ turns < MaxTurns
    /\ turns' = turns + 1
    /\ turn_pc' = "streaming"
    /\ turn_path' = chat_path
    /\ recent_context' =
          IF chat_path \in DOMAIN conversation_state /\ conversation_state[chat_path] # <<>>
          THEN GetRecentConversationContext(conversation_state, chat_path)
          ELSE NoContext
    /\ cc_messages' = <<>>
    /\ cc_full_response' = <<>>
    /\ cc_message_count' = 0
    /\ stream_body' = <<>>
    /\ last' = [kind |-> "begin", path |-> chat_path]
    /\ UNCHANGED <<conversation_state, clock, appended, processorVars, sessionVars, shut>>

\* the locals of the generator and the body pushed so far
CodeCur ==
    [messages |-> cc_messages, full_response |-> cc_full_response,
     message_count |-> cc_message_count, body |-> stream_body]

CodeCommit(st) ==
    /\ cc_messages' = st.messages
    /\ cc_full_response' = st.full_response
    /\ cc_message_count' = st.message_count
    /\ stream_body' = st.body

\* a loop body that yields the content without adding it to full_response
HandleCodeMessageUnrecorded(st, msg) ==
    LET content == ParseClaudeCodeMessage(msg)
        count == st.message_count + 1
    IN [st EXCEPT !.message_count = count,
                  !.messages = Append(st.messages, msg),
                  !.body = IF content # "" THEN StreamPush(st.body, <<Ch(content)>>)
                           ELSE IF count % ProgressEvery = 0 /\ st.full_response = <<>>
                                THEN StreamPush(st.body, <<Ch("...")>>)
                                ELSE st.body]

\* the body of the async for of claude_code_stream for one message: the message is counted
\* and collected; its content is added to full_response and yielded; without content the
\* progress indicator is yielded on every ProgressEvery-th message while full_response is empty
HandleCodeMessage(st, msg) ==
    LET content == ParseClaudeCodeMessage(msg)
        count == st.message_count + 1
    IN [messages |-> Append(st.messages, msg),
        message_count |-> count,
        full_response |-> IF content # "" THEN st.full_response \o <<Ch(content)>>
                          ELSE st.full_response,
        body |-> IF content # "" THEN StreamPush(st.body, <<Ch(content)>>)
                 ELSE IF count % ProgressEvery = 0 /\ st.full_response = <<>>
                      THEN StreamPush(st.body, <<Ch("...")>>)
                      ELSE st.body]

\* the loop body run for n messages msg in a row
RECURSIVE HandleRun(_, _, _)
HandleRun(st, msg, n) ==
    IF n = 0 THEN st ELSE HandleRun(HandleCodeMessage(st, msg), msg, n - 1)

\* the length of the run of messages without content a stream may open with: one short of
\* the message on which the progress indicator is due
SilentRun == ProgressEvery - 1

\* the steps the stream of the turn has taken: an opening run counts as one step
StreamSteps ==
    IF cc_message_count >= SilentRun THEN cc_message_count - SilentRun + 1
    ELSE cc_message_count

\* one message of the stream: collected, parsed, its content yielded and pushed
CodeMessage(msg) ==
    /\ turn_pc = "streaming"
    /\ StreamSteps < MaxMessages
    /\ CodeCommit(HandleCodeMessage(CodeCur, msg))
    /\ last' = [kind |-> "message", path |-> turn_path]
    /\ UNCHANGED <<turn_pc, turn_path, turns, personaVars, processorVars, sessionVars, shut>>

\* the stream opens with SilentRun messages without content (the agent works with its tools
\* before it answers): the loop body runs for each of them
CodeSilentRun(msg) ==
    /\ turn_pc = "streaming"
    /\ cc_message_count = 0
    /\ ParseClaudeCodeMessage(msg) = ""
    /\ CodeCommit(HandleRun(CodeCur, msg, SilentRun))
    /\ last' = [kind |-> "run", path |-> turn_path]
    /\ UNCHANGED <<turn_pc, turn_path, turns, personaVars, processorVars, sessionVars, shut>>

\* the stream is exhausted
CodeStreamEnds ==
    /\ turn_pc = "streaming"
    /\ Finish(cc_full_response)
    /\ last' = [kind |-> "end", path |-> turn_path]
    /\ UNCHANGED <<turn_path, cc_messages, cc_message_count, stream_body, turns, recent_context,
                   processorVars, sessionVars, shut>>

\* the stream raises: an Exception is answered with the notice, which is yielded and then
\* added to full_response; a CancelledError passes through; the finally block runs
CodeStreamRaises(exc) ==
    /\ turn_pc = "streaming"
    /\ IF CatchesException(exc)
       THEN /\ stream_body' = StreamPush(stream_body, ErrorMsg(exc.text))
            /\ Finish(cc_full_response \o ErrorMsg(exc.text))
       ELSE /\ stream_body' = stream_body
            /\ Finish(cc_full_response)
    /\ last' = [kind |-> IF exc.cancelled THEN "cancel" ELSE "fail", path |-> turn_path]
    /\ UNCHANGED <<turn_path, cc_messages, cc_message_count, turns, recent_context,
                   processorVars, sessionVars, shut>>

PersonaNext ==
    \/ \E c \in ChatPaths : BeginTurn(c)
    \/ \E msg \in CodeMessages : CodeMessage(msg)
    \/ \E msg \in CodeMessages : CodeSilentRun(msg)
    \/ CodeStreamEnds
    \/ \E exc \in Raisable : CodeStreamRaises(exc)

PersonaSpec == Init /\ [][PersonaNext]_vars

\* ------------------------------------------------------------------ claude.py
\* a test that always asks for a new client
AlwaysNeedsClient(client) == TRUE

\* `if self._sdk_client is None`
NeedsClient(client) == client = None

\* process_message up to its first suspension: _get_or_create_client either constructs a
\* client and awaits connect(), or returns the stored one and the prompt is submitted on it
ProcessMessage(t) ==
    /\ task_pc[t] = "idle"
    /\ IF NeedsClient(sdk_client)
       THEN /\ clients' = Append(clients, "new")
            /\ sdk_client' = Len(clients) + 1
            /\ task_pc' = [task_pc EXCEPT ![t] = "connecting"]
            /\ UNCHANGED <<task_client, submitted>>
       ELSE /\ task_client' = [task_client EXCEPT ![t] = sdk_client]
            /\ submitted' = Append(submitted, [task |-> t, client |-> sdk_client])
            /\ task_pc' = [task_pc EXCEPT ![t] = "streaming"]
            /\ UNCHANGED <<clients, sdk_client>>
    /\ last' = [kind |-> "prompt", task |-> t]
    /\ UNCHANGED <<processorVars, turnVars, personaVars, shut>>

\* connect() returns: _get_or_create_client returns self._sdk_client, the prompt is submitted
Connected(t) ==
    /\ task_pc[t] = "connecting"
    /\ clients' = [clients EXCEPT ![sdk_client] = "connected"]
    /\ task_client' = [task_client EXCEPT ![t] = sdk_client]
    /\ submitted' = Append(submitted, [task |-> t, client |-> sdk_client])
    /\ task_pc' = [task_pc EXCEPT ![t] = "streaming"]
    /\ last' = [kind |-> "connected", task |-> t]
    /\ UNCHANGED <<sdk_client, processorVars, turnVars, personaVars, shut>>

\* connect() raises: the exception leaves process_message, self._sdk_client stays set
ConnectFailed(t) ==
    /\ task_pc[t] = "connecting"
    /\ clients' = [clients EXCEPT ![sdk_client] = "failed"]
    /\ task_pc' = [task_pc EXCEPT ![t] = "raised"]
    /\ last' = [kind |-> "connect_failed", task |-> t]
    /\ UNCHANGED <<sdk_client, task_client, submitted, processorVars, turnVars, personaVars, shut>>

\* process_with_persistent_client returns, after a complete stream (ok) or after a stream
\* failure it reported to the chat
TurnReturns(t, ok) ==
    /\ task_pc[t] = "streaming"
    /\ task_pc' = [task_pc EXCEPT ![t] = IF ok THEN "done" ELSE "failed"]
    /\ last' = [kind |-> "returned", task |-> t]
    /\ UNCHANGED <<sdk_client, clients, task_client, submitted, processorVars, turnVars, personaVars, shut>>

\* shutdown() of ClaudeAgentPersona: the class defines none and no code of it resets
\* or disconnects _sdk_client
AgentShutdown ==
    /\ ~shut
    /\ shut' = TRUE
    /\ last' = [kind |-> "shutdown"]
    /\ UNCHANGED <<sessionVars, turnVars, processorVars, personaVars>>

SessionNext ==
    \/ \E t \in Tasks : ProcessMessage(t)
    \/ \E t \in Tasks : Connected(t)
    \/ \E t \in Tasks : ConnectFailed(t)
    \/ \E t \in Tasks, ok \in BOOLEAN : TurnReturns(t, ok)
    \/ AgentShutdown

SessionSpec == Init /\ [][SessionNext]_vars

\* ------------------------------------------------------------ the document
\* the body of the message the turn created
Document == ychat[message_id]

\* the body of the last call the sink received
LastPushed == ychat[sink_log[Len(sink_log)].id]

\* a part is the block of tool call id
IsToolBlock(part, id) ==
    /\ Len(part) = 5
    /\ "open" \in DOMAIN part[2]
    /\ part[2].open[1].v = <<id>>

\* the visible marks of a string, in order: its characters other than white space, and the id
\* of each tool-call tag
RECURSIVE Marks(_)
Marks(s) ==
    IF s = <<>> THEN <<>>
    ELSE LET tok == Head(s) IN
         (IF "open" \in DOMAIN tok THEN << [tool |-> tok.open[1].v[1]] >>
          ELSE IF "close" \in DOMAIN tok \/ IsSpace(tok) THEN <<>>
          ELSE << tok >>) \o Marks(Tail(s))

\* the observed elements that a tool-use block introduced or that are text
Shown(e) == "text" \in DOMAIN e \/ e.tool \notin preFirst
ObservedShown == SelectSeq(observed, Shown)

RECURSIVE ObservedMarks(_)
ObservedMarks(obs) ==
    IF obs = <<>> THEN <<>>
    ELSE (IF "text" \in DOMAIN Head(obs) THEN Marks(Head(obs).text)
          ELSE << [tool |-> Head(obs).tool] >>) \o ObservedMarks(Tail(obs))

\* C1: the elements of message_parts, and the marks of the pushed document, are in the order
\* in which their text blocks and tool-use blocks were first observed, whenever the results
\* arrive (a tool whose pre-tool hook ran before its tool-use block has no element).
OrderIsFirstSight ==
    /\ Len(message_parts) = Len(ObservedShown)
    /\ \A i \in 1..Len(message_parts) :
          IF "text" \in DOMAIN ObservedShown[i]
          THEN message_parts[i] = ObservedShown[i].text
          ELSE IsToolBlock(message_parts[i], ObservedShown[i].tool)
    /\ message_id # None => Marks(Document) = ObservedMarks(ObservedShown)

\* C1 witness: a tool requested before a text, its result delivered after the text, and the
\* block, now with its result, still before the text
LateResultKeepsOrder ==
    /\ last.kind = "user"
    /\ Len(observed) = 2 /\ "tool" \in DOMAIN observed[1] /\ "text" \in DOMAIN observed[2]
    /\ delivered[observed[1].tool] # {}
    /\ message_id # None
    /\ Len(Document) >= 2
    /\ "open" \in DOMAIN Document[1]
    /\ Document[1].open[Len(Document[1].open)].k = "output"
    /\ Marks(Document) = << [tool |-> observed[1].tool] >> \o Marks(observed[2].text)

\* the Renderer of the specification on the Buffer and the Registry: every tool element is
\* rendered from the current record
RenderBuffer ==
    [i \in 1..Len(message_parts) |->
        IF \E id \in DOMAIN tool_call_positions : tool_call_positions[id] = i - 1
        THEN render_tool_calls(<< tool_calls[CHOOSE id \in DOMAIN tool_call_positions :
                                                 tool_call_positions[id] = i - 1] >>)
        ELSE message_parts[i]]

\* C2: when the turn has ended, the last body pushed is the rendering of the final Buffer
\* with the final Registry.
FinalBodyIsRender ==
    (pc = "done" /\ sink_log # <<>>) => LastPushed = Strip(Join(RenderBuffer))

\* C3: a turn with a push has exactly one create, first, and every replace targets its handle.
OneCreateThenReplaces ==
    sink_log # <<>> =>
        /\ sink_log[1].op = "create"
        /\ \A i \in 2..Len(sink_log) :
              sink_log[i].op = "replace" /\ sink_log[i].id = sink_log[1].id

\* C4: a turn that completes without any element observed has made exactly one create call,
\* with an empty body.
EmptyTurnCreatesOnce ==
    (pc = "done" /\ error = NoError /\ observed = <<>>) =>
        /\ Len(ychat) = 1
        /\ ychat[1] = <<>>
        /\ Cardinality({i \in 1..Len(sink_log) : sink_log[i].op = "create"}) = 1

\* the blocks of an AssistantMessage without the tool-use blocks whose id is already known
RECURSIVE RemoveDuplicates(_, _)
RemoveDuplicates(known, blocks) ==
    IF blocks = <<>> THEN <<>>
    ELSE LET b == Head(blocks) IN
         IF b.type = "tool_use" /\ b.id \in known
         THEN RemoveDuplicates(known, Tail(blocks))
         ELSE <<b>> \o RemoveDuplicates(IF b.type = "tool_use" THEN known \cup {b.id} ELSE known,
                                        Tail(blocks))

\* C5: an AssistantMessage leaves message_parts, tool_calls, tool_call_positions and the
\* document as the same message without its duplicate tool-use blocks does, and no existing
\* record changes.
DuplicateRequestIgnored ==
    [][last'.kind = "assistant" =>
         LET p == AssistantLoop(Cur, RemoveDuplicates(DOMAIN tool_calls, last'.blocks)) IN
         /\ message_parts' = p.message_parts
         /\ tool_calls' = p.tool_calls
         /\ tool_call_positions' = p.tool_call_positions
         /\ ychat'[message_id'] = Strip(Join(p.message_parts))
         /\ \A id \in DOMAIN tool_calls : tool_calls'[id] = tool_calls[id]]_vars

\* C5 witness: a tool-use block for a known id and with another name was delivered, and the
\* record and the single block of that id are those of the first request
DuplicateRequestSeen ==
    /\ last.kind = "assistant"
    /\ \E i \in 1..Len(last.blocks) :
          /\ last.blocks[i].type = "tool_use"
          /\ last.blocks[i].id \notin preFirst
          /\ last.blocks[i].id \in DOMAIN tool_call_positions
          /\ tool_calls[last.blocks[i].id].function_name # last.blocks[i].name
          /\ Cardinality({j \in 1..Len(message_parts) :
                            IsToolBlock(message_parts[j], last.blocks[i].id)}) = 1

\* C6: a tool-result block that repeats a result already attached for its id leaves the
\* document as it is.
RepeatedResultKeepsDocument ==
    [][(/\ last'.kind = "user"
        /\ Len(last'.blocks) = 1
        /\ last'.blocks[1].content \in delivered[last'.blocks[1].tool_use_id])
       => ychat' = ychat]_vars

\* C7: the tool-result blocks of unknown ids, and a post-tool hook of an unknown id, change
\* neither the Buffer, the Registry, the document nor the calls to the sink, raise nothing,
\* and the stream goes on.
UnknownResultIgnored ==
    [][/\ last'.kind = "user" =>
            LET p == HandleUserMessage(Cur, SelectSeq(last'.blocks, Known)) IN
            /\ message_parts' = p.message_parts
            /\ tool_calls' = p.tool_calls
            /\ tool_call_positions' = p.tool_call_positions
            /\ message_id' = p.message_id
            /\ ychat' = p.ychat
            /\ sink_log' = p.sink_log
            /\ pc' = "streaming" /\ error' = NoError /\ outcome' = "none"
       /\ (last'.kind = "post" /\ last'.id \notin DOMAIN tool_calls) =>
            /\ UNCHANGED <<message_parts, tool_calls, tool_call_positions, message_id,
                           ychat, sink_log>>
            /\ pc' = "streaming" /\ error' = NoError /\ outcome' = "none"]_vars

\* C7 witness: a UserMessage of results for unknown ids only was handled after content was
\* pushed; the anomaly was logged and the stream is still being consumed
UnknownResultSeen ==
    /\ last.kind = "user"
    /\ last.blocks # <<>>
    /\ \A i \in 1..Len(last.blocks) : ~Known(last.blocks[i])
    /\ warnings = Len(last.blocks)
    /\ message_parts # <<>>
    /\ sink_log # <<>>
    /\ pc = "streaming"

\* C8: a record that holds a result keeps that result.
ResultSetOnce ==
    [][\A id \in DOMAIN tool_calls :
          HasOutput(tool_calls[id]) =>
              /\ id \in DOMAIN tool_calls'
              /\ HasOutput(tool_calls'[id])
              /\ tool_calls'[id].output = tool_calls[id].output]_vars

\* C9: after a stream failure that follows pushed content there is one message, and it is
\* the earlier elements followed by a single failure notice.
FailureNoticeInDocument ==
    (pc = "done" /\ error # NoError /\ message_id # None /\ message_parts # <<>>) =>
        /\ Len(ychat) = 1
        /\ Len(message_parts) = Len(ObservedShown) + 1
        /\ message_parts[Len(message_parts)] = ErrorBody(error)
        /\ Document = Strip(Join(message_parts))

\* C10: a stream failure ends the turn with a normal return, and the failure is in the sink.
FailureContained ==
    (pc = "done" /\ error # NoError) =>
        /\ outcome = "returned"
        /\ ychat[Len(ychat)] = ErrorBody(error)

\* C10 witness: the stream failed after content was pushed and the turn returned
FailureAfterContent ==
    /\ pc = "done"
    /\ error \in Errors
    /\ message_id # None
    /\ outcome = "returned"

\* --------------------------------------------------------------- the history
Min(a, b) == IF a < b THEN a ELSE b

\* the entries of a chat, <<>> for a chat without state
HistoryOf(c) == IF c \in DOMAIN conversation_state THEN conversation_state[c] ELSE <<>>

\* C11: the History Buffer of every conversation holds at most 5 entries.
HistoryBounded == \A c \in ChatPaths : Len(HistoryOf(c)) <= 5

\* C11 witness: more entries were appended to a chat than its buffer holds
HistoryFull ==
    \E c \in ChatPaths : Len(appended[c]) > 5 /\ Len(HistoryOf(c)) = 5

\* C12: after n appends the buffer of a chat is the last min(n, 5) appended entries, in
\* append order (so an append to a full buffer drops the oldest entry only, and an append
\* to a shorter one drops nothing).
HistoryIsFifo ==
    \A c \in ChatPaths :
        LET n == Len(appended[c])
            k == Min(n, 5)
        IN /\ Len(HistoryOf(c)) = k
           /\ \A i \in 1..k : HistoryOf(c)[i] = appended[c][n - k + i]

\* C12 witness: a sixth entry was appended to a chat and the first one is gone
OldestEvicted ==
    \E c \in ChatPaths :
        /\ last.kind = "append" /\ last.path = c
        /\ Len(appended[c]) = 6
        /\ \A i \in 1..Len(HistoryOf(c)) : HistoryOf(c)[i] # appended[c][1]
        /\ HistoryOf(c)[1] = appended[c][2]
        /\ HistoryOf(c)[5] = appended[c][6]

\* the preview of a final text: its first min(200, length) characters
Preview(r) == [i \in 1..Min(200, Len(r)) |-> r[i]]

\* the window of a chat: the previews of its last min(3, n) entries, oldest first
ExpectedWindow(c) ==
    LET h == HistoryOf(c)
        n == Len(h)
        k == Min(3, n)
    IN IF n = 0 THEN NoContext
       ELSE [str |-> JoinWith(Ch("\n"),
                [j \in 1..k |-> <<Ch("Previous exchange "), Ch(IntStr(j)), Ch(": ")>>
                                \o Preview(h[n - k + j].response) \o <<Ch("...")>>])]

\* C13: a read of the window returns the previews of the most recent min(3, n) entries of
\* the chat, in append order, each the first min(200, length) characters of the entry's final
\* text, and leaves the History Buffer unchanged.
WindowIsRecent ==
    [][last'.kind = "read" =>
          /\ recent_context' = ExpectedWindow(last'.path)
          /\ conversation_state' = conversation_state]_vars

\* C13 witness: a window read from a buffer of more than 3 entries whose last entry is
\* longer than a preview
WindowTruncates ==
    /\ last.kind = "read"
    /\ Len(HistoryOf(last.path)) > 3
    /\ Len(HistoryOf(last.path)[Len(HistoryOf(last.path))].response) > 200
    /\ recent_context = ExpectedWindow(last.path)
    /\ recent_context # NoContext

\* --------------------------------------------------------------- the session
InFlight == {t \in Tasks : task_pc[t] = "streaming"}

\* C14: at most one client is constructed, and every prompt is submitted on that client.
OneConnection ==
    /\ Len(clients) <= 1
    /\ \A i \in 1..Len(submitted) : submitted[i].client = 1
    /\ sdk_client \in {None, 1}

\* C14 witness: one call still awaits connect() of the only client, a second call was
\* submitted on that client meanwhile and its turn failed, and a third call was submitted
\* on it afterwards
ConnectionReused ==
    /\ Len(clients) = 1
    /\ Len(submitted) = 2
    /\ \E t \in Tasks : task_pc[t] = "connecting"
    /\ task_pc[submitted[1].task] = "failed"
    /\ task_pc[submitted[2].task] = "streaming"
    /\ submitted[2].client = submitted[1].client

\* C15: at most one prompt is in flight on the connection.
SingleFlight == Cardinality(InFlight) <= 1

\* C16: after shutdown the session holds no connection and every History Buffer is empty.
ShutdownReleases ==
    shut => /\ sdk_client = None
            /\ \A c \in ChatPaths : HistoryOf(c) = <<>>

\* C17: once the session is shut down, no connection is created and no prompt is submitted.
ClosedIsTerminal ==
    [][shut => /\ clients' = clients
               /\ sdk_client' = sdk_client
               /\ submitted' = submitted]_vars

\* ------------------------------------------------------------------ the turn
\* the step ends a turn: the stream ended, failed or was cancelled
TurnFinishes == turn_pc = "streaming" /\ turn_pc' = "idle"

\* the History Buffer of the turn's conversation gains exactly the entry of this turn
EntryAppended(full_response) ==
    /\ HistoryOf(turn_path)' =
          KeepLast(Append(HistoryOf(turn_path),
                          ConversationEntry(cc_messages, full_response, clock)))
    /\ \A c \in ChatPaths \ {turn_path} : HistoryOf(c)' = HistoryOf(c)

NothingAppended == \A c \in ChatPaths : HistoryOf(c)' = HistoryOf(c)

\* a body without the progress indicators
WithoutProgress(body) == SelectSeq(body, LAMBDA t : t # Ch("..."))

FailedEntryMarked ==
    [][last'.kind = "fail" /\ cc_messages # <<>> =>
          LET entry == HistoryOf(turn_path)'[Len(HistoryOf(turn_path)')]
          IN "failed" \in DOMAIN entry]_vars

\* ------------------------------------------------------------- the options
\* C21: the stream is started with exactly one server, the demo server, when mcp_config is
\* None or empty, and with the given servers unchanged otherwise; in every case the turn
\* goes on to consume the stream and nothing is raised.
DefaultServerWhenAbsent ==
    [][last'.kind = "start" =>
          /\ (~last'.mcp_config.given \/ Cardinality(DOMAIN last'.mcp_config.servers) = 0)
                => /\ Cardinality(DOMAIN last'.mcp_servers) = 1
                   /\ last'.mcp_servers = DemoServers
          /\ (last'.mcp_config.given /\ Cardinality(DOMAIN last'.mcp_config.servers) > 0)
                => last'.mcp_servers = last'.mcp_config.servers
          /\ pc' = "streaming" /\ error' = NoError /\ outcome' = "none"]_vars

\* C21 witness: a turn started with an empty configuration consumes the stream with the one
\* demo server
StartedWithEmptyConfig ==
    /\ last.kind = "start"
    /\ last.mcp_config.given
    /\ DOMAIN last.mcp_config.servers = {}
    /\ DOMAIN last.mcp_servers = {"demo"}
    /\ pc = "streaming"

\* ------------------------------------------------------------- the renderer
\* the step called _update_message
Pushed == sink_log' # sink_log /\ last'.kind # "fail"

ElementKind(part) ==
    IF Len(part) = 5 /\ "open" \in DOMAIN part[2]
    THEN [tool |-> part[2].open[1].v[1]]
    ELSE [text |-> part]

\* C23: no step shortens message_parts, changes the kind or the tool id of an element at an
\* existing position (or the content of a text), or changes the position recorded for an id.
BufferAppendOnly ==
    [][/\ Len(message_parts') >= Len(message_parts)
       /\ \A i \in 1..Len(message_parts) :
             ElementKind(message_parts'[i]) = ElementKind(message_parts[i])
       /\ \A id \in DOMAIN tool_call_positions :
             /\ id \in DOMAIN tool_call_positions'
             /\ tool_call_positions'[id] = tool_call_positions[id]]_vars

\* C23 witness: the block of a tool that is followed by later elements was re-rendered with
\* its result, at the position recorded at first sight
ReRenderedInPlace ==
    /\ last.kind = "user"
    /\ \E id \in DOMAIN tool_call_positions :
          /\ delivered[id] # {}
          /\ HasOutput(tool_calls[id])
          /\ tool_call_positions[id] + 1 < Len(message_parts)
          /\ message_parts[tool_call_positions[id] + 1] = render_tool_calls(<<tool_calls[id]>>)
          /\ ElementKind(message_parts[tool_call_positions[id] + 1]) = [tool |-> id]

\* C24: every tool block of message_parts is the block of an id that has a record in
\* tool_calls, and the position recorded for an id is an index of message_parts, the one of
\* the block of that id.
NoDanglingReference ==
    /\ \A i \in 1..Len(message_parts) :
          "tool" \in DOMAIN ElementKind(message_parts[i])
             => ElementKind(message_parts[i]).tool \in DOMAIN tool_calls
    /\ \A id \in DOMAIN tool_call_positions :
          /\ tool_call_positions[id] + 1 \in 1..Len(message_parts)
          /\ ElementKind(message_parts[tool_call_positions[id] + 1]) = [tool |-> id]
          /\ id \in DOMAIN tool_calls

\* C24 witness: two tools have a block each, with a text between them, and each block is at
\* the position recorded for its id
TwoMarkersResolved ==
    /\ DOMAIN tool_call_positions = Ids
    /\ Len(message_parts) = 3
    /\ "text" \in DOMAIN ElementKind(message_parts[2])
    /\ \A id \in Ids :
          /\ id \in DOMAIN tool_calls
          /\ IsToolBlock(message_parts[tool_call_positions[id] + 1], id)

\* -------------------------------------------------------------- the registry
\* C25: once an id has a record, every step keeps the record, with its tool name, its
\* arguments and its index.
RecordCreatedOnce ==
    [][\A id \in DOMAIN tool_calls :
          /\ id \in DOMAIN tool_calls'
          /\ tool_calls'[id].function_name = tool_calls[id].function_name
          /\ tool_calls'[id].function_args = tool_calls[id].function_args
          /\ tool_calls'[id].index = tool_calls[id].index]_vars

\* -------------------------------------------------------------- the document
\* the elements of a list of parts one after the other
RECURSIVE Concat(_)
Concat(parts) ==
    IF parts = <<>> THEN <<>>
    ELSE Concat(SubSeq(parts, 1, Len(parts) - 1)) \o parts[Len(parts)]

\* a string from its first to its last token that is not white space
Trimmed(s) ==
    LET inked == {i \in 1..Len(s) : ~IsSpace(s[i])} IN
    IF inked = {} THEN <<>>
    ELSE SubSeq(s, CHOOSE i \in inked : \A j \in inked : i <= j,
                   CHOOSE i \in inked : \A j \in inked : i >= j)

\* C26 as stated: every body pushed is the elements of message_parts one after the other,
\* with no character dropped.
BodyIsConcatenation ==
    [][Pushed => ychat'[message_id'] = Concat(message_parts')]_vars

\* C26: every body pushed is the elements of message_parts one after the other, in order and
\* each as it is stored, without the white space before the first and after the last other
\* character of the whole document; equal parts are not merged.
BodyIsTrimmedConcatenation ==
    [][Pushed => ychat'[message_id'] = Trimmed(Concat(message_parts'))]_vars

\* C26 witness: two equal text deltas that start with a blank were pushed; the document holds
\* both, without the first blank only
EqualDeltasKept ==
    /\ last.kind = "assistant"
    /\ Len(message_parts) = 2
    /\ message_parts[1] = message_parts[2]
    /\ IsSpace(message_parts[1][1])
    /\ Document = Tail(message_parts[1] \o message_parts[2])

\* --------------------------------------------------------- results and requests
\* the step handled a result event for id: a tool-result block or a post-tool hook
ResultEventFor(id) ==
    \/ /\ last'.kind = "user"
       /\ \E i \in 1..Len(last'.blocks) : last'.blocks[i].tool_use_id = id
    \/ last'.kind = "post" /\ last'.id = id

\* the block of id in message_parts shows a result
BlockShowsResult(parts, positions, id) ==
    LET attrs == parts[positions[id] + 1][2].open
    IN attrs[Len(attrs)].k = "output"

\* C27: a result event for an id without a record stores nothing for that id; a record is
\* created without a result and its block without one; and a record without a result gets
\* one only in a step that handles a result event for its id.
NoSpeculativeResult ==
    [][\A id \in Ids :
          /\ (id \notin DOMAIN tool_calls /\ ResultEventFor(id))
                => id \notin DOMAIN tool_calls' /\ id \notin DOMAIN tool_call_positions'
          /\ (id \notin DOMAIN tool_calls /\ id \in DOMAIN tool_calls')
                => /\ ~HasOutput(tool_calls'[id])
                   /\ id \in DOMAIN tool_call_positions'
                         => ~BlockShowsResult(message_parts', tool_call_positions', id)
          /\ (/\ id \in DOMAIN tool_calls /\ ~HasOutput(tool_calls[id])
              /\ HasOutput(tool_calls'[id]))
                => ResultEventFor(id)]_vars

\* C27 witness: the result of an id was dropped, then a tool-use block introduced the id; the
\* record has no result and the block shows none
EarlyResultDropped ==
    /\ last.kind = "assistant"
    /\ \E id \in dropped :
          /\ \E i \in 1..Len(last.blocks) :
                last.blocks[i].type = "tool_use" /\ last.blocks[i].id = id
          /\ id \in DOMAIN tool_call_positions
          /\ ~HasOutput(tool_calls[id])
          /\ delivered[id] = {}
          /\ ~BlockShowsResult(message_parts, tool_call_positions, id)
          /\ warnings >= 1

\* ---------------------------------------------------------- connection faults
\* C28: a prompt that finds the stored client failed constructs a new client.
FaultyConnectionReplaced ==
    [][(/\ last'.kind = "prompt"
        /\ sdk_client # None
        /\ clients[sdk_client] = "failed")
       => /\ Len(clients') = Len(clients) + 1
          /\ sdk_client' # sdk_client]_vars

\* ------------------------------------------------------------ turn after turn
\* the document doc holds a block of id that shows a result
DocShowsResult(doc, id) ==
    \E i \in 1..Len(doc) :
        /\ "open" \in DOMAIN doc[i]
        /\ doc[i].open[1].v = <<id>>
        /\ doc[i].open[Len(doc[i].open)].k = "output"

\* C29: a new processor starts with empty message_parts, tool_calls and tool_call_positions
\* and no message_id; no step changes a message the chat held when the processor was
\* constructed; the message of the turn is a later one and its marks are those observed in
\* this turn; a tool-use block for an id without a record in this turn makes the record from
\* that block.
TurnStateIsFresh ==
    [][/\ last'.kind = "new" =>
             /\ message_parts' = <<>>
             /\ tool_calls' = EmptyDict
             /\ tool_call_positions' = EmptyDict
             /\ message_id' = None
       /\ \A h \in 1..turn_base : ychat'[h] = ychat[h]
       /\ message_id' # None =>
             /\ message_id' > turn_base'
             /\ Marks(ychat'[message_id']) = ObservedMarks(ObservedShown')
       /\ (/\ last'.kind = "assistant"
           /\ last'.blocks[1].type = "tool_use"
           /\ last'.blocks[1].id \notin DOMAIN tool_calls) =>
             tool_calls'[last'.blocks[1].id] =
                NewToolCall(last'.blocks[1].id, Cardinality(DOMAIN tool_calls),
                            last'.blocks[1].name, last'.blocks[1].input)]_vars

\* C29 witness: in the second turn a tool-use block reuses an id whose block in the message
\* of the first turn shows a result; the new record has index 0 and no result, and its block
\* is in a new message
IdReusedInNextTurn ==
    /\ processors = 2
    /\ last.kind = "assistant"
    /\ message_id # None
    /\ message_id > turn_base
    /\ \E id \in DOMAIN tool_call_positions :
          /\ tool_calls[id].index = 0
          /\ ~HasOutput(tool_calls[id])
          /\ ~DocShowsResult(Document, id)
          /\ \E h \in 1..turn_base : DocShowsResult(ychat[h], id)

\* ------------------------------------------------------- history per chat
\* the conversation state with the entries of chat c only
OnlyChat(c) == [x \in {c} \cap DOMAIN conversation_state |-> conversation_state[x]]

\* the entries of a chat after the step
HistoryAfter(c) == IF c \in DOMAIN conversation_state' THEN conversation_state'[c] ELSE <<>>

\* C30: an append for a chat changes the History Buffer of that chat and of no other chat,
\* and the context read for a chat is the one read from the entries of that chat alone.
HistoryScopedToChat ==
    [][/\ last'.kind = "append" =>
             /\ HistoryAfter(last'.path) # HistoryOf(last'.path)
             /\ \A c \in ChatPaths \ {last'.path} : HistoryAfter(c) = HistoryOf(c)
       /\ last'.kind = "read" =>
             recent_context' = GetRecentConversationContext(OnlyChat(last'.path), last'.path)]_vars

\* C30 witness: an entry was appended to a chat whose buffer is now full while the other
\* chat holds, untouched, the entry appended to it before
OtherChatUntouched ==
    /\ last.kind = "append"
    /\ Len(HistoryOf(last.path)) = HistoryCap
    /\ \E c \in ChatPaths \ {last.path} :
          /\ HistoryOf(c) # <<>>
          /\ HistoryOf(c) = appended[c]
          /\ HistoryOf(c)[1].timestamp < HistoryOf(last.path)[HistoryCap].timestamp

\* ----------------------------------------------------- records and markers
\* C31: every id that has a record and whose tool-use block the stream has delivered has
\* exactly one block in message_parts.
EveryRecordHasMarker ==
    \A id \in (DOMAIN tool_calls) \cap SeenUse :
        Cardinality({i \in 1..Len(message_parts) : IsToolBlock(message_parts[i], id)}) = 1

\* C32: a prompt is submitted only on a client whose connect() has returned.
SubmittedOnConnected ==
    [][Len(submitted') > Len(submitted) =>
          clients'[submitted'[Len(submitted')].client] = "connected"]_vars

\* C35: the index values of the records are pairwise distinct and are 0 .. n-1 for n records.
IndexesAreDistinct ==
    /\ \A id1, id2 \in DOMAIN tool_calls :
          id1 # id2 => tool_calls[id1].index # tool_calls[id2].index
    /\ \A id \in DOMAIN tool_calls : tool_calls[id].index < Cardinality(DOMAIN tool_calls)

\* -------------------------------------------------------- is-writing indicator
\* C34: isWriting is true exactly while the stream is processed: it is false before the turn
\* starts and after the turn has ended, whether the stream was exhausted, raised or the task
\* was cancelled.
WritingBracketsTurn ==
    /\ pc = "streaming" => isWriting
    /\ pc \in {"idle", "done"} => ~isWriting

\* a turn cancelled after it had created its message has the indicator cleared
CancelledTurnNotWriting ==
    /\ pc = "done" /\ outcome = "cancelled" /\ last.kind = "cancel"
    /\ message_id # None
    /\ ~isWriting

\* ------------------------------------------------------ recorded final text
\* the response of the entry the turn that finishes has stored
StoredResponse ==
    LET h == HistoryAfter(turn_path) IN h[Len(h)].response

\* C33 as stated: the response stored for a turn is the whole body the turn pushed: content,
\* progress indicators and failure notice, in order.
FinalTextIsEmitted ==
    [][TurnFinishes /\ cc_messages # <<>> =>
          /\ HistoryAfter(turn_path) # <<>>
          /\ StoredResponse = stream_body']_vars

\* C33: the response stored for a turn is the body the turn pushed without its progress
\* indicators: the content fragments and the failure notice, in order.
FinalTextIsEmittedContent ==
    [][TurnFinishes /\ cc_messages # <<>> =>
          /\ HistoryAfter(turn_path) # <<>>
          /\ StoredResponse = WithoutProgress(stream_body')]_vars

\* C33 witness: a turn showed the progress indicator on its ProgressEvery-th message and then
\* failed; the body holds the indicator and the notice, the stored response the notice only
ProgressShownNotRecorded ==
    /\ last.kind = "fail"
    /\ cc_message_count >= ProgressEvery
    /\ stream_body # <<>> /\ stream_body[1] = Ch("...")
    /\ HistoryOf(turn_path) # <<>>
    /\ HistoryOf(turn_path)[Len(HistoryOf(turn_path))].response = Tail(stream_body)
    /\ Tail(stream_body) # <<>>

====
